---- MODULE Spec2Model ----
(***************************************************************************)
(* A model of torchlft: the checkerboard coupling layers                   *)
(* (lattice/scalar/layers.py), the observable sample sets and the          *)
(* autocorrelation routine (observables.py) and the assembly of a coupling *)
(* flow (scalar/flows/coupling.py).                                        *)
(*                                                                         *)
(* A lattice configuration is a function from sites <<x, y>> to integers;  *)
(* the batch axis and the single channel axis are left out, every          *)
(* operation being applied batch-wise and channel-wise.  A tensor of the   *)
(* observables module is a record [shape, data], data in row-major order.  *)
(***************************************************************************)
EXTENDS Integers, Sequences, FiniteSets, TLC

\* Bounds of the model.
MaxHalfL == 2
MaxRadius == 2
MaxLayerId == 3
MaxVal == 2
MaxSample == 2
MaxReplica == 2
MaxBootstrap == 1
MaxBlocks == 4
MaxChannels == 8
MaxLen == 4

VARIABLES
    dims,       \* <<L, T>> of the configurations handed to the layer
    inputs,     \* the configurations the caller passes, one per call
    layer,      \* the constructed layer object
    calls       \* one record per completed forward call

layerVars == <<dims, inputs, layer, calls>>

VARIABLES
    samples,    \* the caller's samples tensor, as it is now
    args,       \* the arguments of the construction
    self,       \* the sample set under construction, or how it failed
    value       \* what reading OnePointObservables.value returned

obsVars == <<samples, args, self, value>>

VARIABLES
    flow,       \* Flow.build: the configuration, the loop and its result
    upscaling,  \* UpscalingLayer.forward: the input's shape and the outcome
    autocorr    \* autocorrelation: the series passed and the outcome

restVars == <<flow, upscaling, autocorr>>

vars == <<layerVars, obsVars, restVars>>

----------------------------------------------------------------------------
\* Helpers

RECURSIVE SumSeq(_)
SumSeq(s) == IF s = << >> THEN 0 ELSE Head(s) + SumSeq(Tail(s))

Range(s) == {s[n] : n \in DOMAIN s}

\* The even lattice lengths.
EvenDims == {2 * h : h \in 1..MaxHalfL}

Sites(d) == (0..(d[1] - 1)) \X (0..(d[2] - 1))

Window(K) == (0..(K - 1)) \X (0..(K - 1))

\* Positions of a K x K array in row-major order.
RowMajor(K) == [n \in 1..(K * K) |-> <<(n - 1) \div K, (n - 1) % K>>]

Arange(a, b) == [n \in 1..(b - a) |-> a + n - 1]

----------------------------------------------------------------------------
\* torchlft.nflow.partition / torchlft.utils.lattice (described by the
\* specification only)

\* Checkerboard2d(partition_id)(dimensions): complementary boolean masks,
\* the parity of partition_id choosing which colour is active.
Checkerboard2d(partition_id, d) ==
    [active |-> [s \in Sites(d) |-> (s[1] + s[2] + partition_id) % 2 = 0],
     frozen |-> [s \in Sites(d) |-> (s[1] + s[2] + partition_id) % 2 # 0]]

\* checkerboard_mask(shape, offset): the checkerboard pattern on a 2-d shape,
\* shifted by offset.
checkerboard_mask(shape, offset) ==
    [p \in (0..(shape[1] - 1)) \X (0..(shape[2] - 1)) |->
        (p[1] + p[2] + offset) % 2 = 0]

\* The elementwise transform built from a context: an affine shift whose
\* parameter is read from the context vector of the site.
Transform(ctx, x) == x + 1 + SumSeq(ctx)

\* The spatial conditioner network: a periodic 3 x 3 convolution with unit
\* weights, one output channel.
SpatialNet(field, d) ==
    [s \in Sites(d) |->
        <<SumSeq([n \in 1..9 |->
            field[<<(s[1] + RowMajor(3)[n][1] - 1) % d[1],
                    (s[2] + RowMajor(3)[n][2] - 1) % d[2]>>]])>>]

----------------------------------------------------------------------------
\* CouplingLayer.__init__

\* torch.stack(torch.meshgrid(arange(-r, r+1), arange(-r, r+1),
\* indexing="xy"), dim=-1): entry [i, j] is (a[j], a[i]).
ShiftGridUncentred(radius) ==
    [p \in Window(2 * radius + 1) |-> <<p[2], p[1]>>]

ShiftGrid(radius) ==
    LET a == Arange(0 - radius, radius + 1)
    IN  [p \in Window(2 * radius + 1) |-> <<a[p[2] + 1], a[p[1] + 1]>>]

\* checkerboard_mask([K + 1, K + 1], offset=1)[:-1, :-1]
Checker(K) ==
    LET full == checkerboard_mask(<<K + 1, K + 1>>, 1)
    IN  [p \in Window(K) |-> full[p]]

\* grid[mask]: the entries at the True positions, in row-major order.
MaskedSelect(grid, mask, K) ==
    LET pos == SelectSeq(RowMajor(K), LAMBDA p : mask[p])
    IN  [n \in 1..Len(pos) |-> grid[pos[n]]]

\* zeros(K, K).masked_scatter(mask, source): the n-th True position in
\* row-major order receives source[n].
MaskedScatter(mask, source, K) ==
    [p \in Window(K) |->
        IF mask[p]
        THEN source[Cardinality({n \in 1..(p[1] * K + p[2] + 1) :
                                    mask[RowMajor(K)[n]]})]
        ELSE 0]

\* nn.functional.one_hot(elements)[..., 1:]: the classes are
\* 0..max(elements), and the channel of class 0 is dropped.
Kernels(elements, K) ==
    LET top == CHOOSE m \in {elements[p] : p \in Window(K)} :
                   \A p \in Window(K) : elements[p] <= m
    IN  [p \in Window(K) |->
            [c \in 1..top |-> IF elements[p] = c THEN 1 ELSE 0]]

NewCouplingLayer(radius, layer_id) ==
    LET K == 2 * radius + 1
        checker == Checker(K)
        elements == MaskedScatter(checker, Arange(1, (K * K) \div 2 + 1), K)
    IN  [kind |-> "CouplingLayer",
         partition_id |-> layer_id,
         radius |-> radius,
         shifts |-> MaskedSelect(ShiftGrid(radius), checker, K),
         kernels |-> Kernels(elements, K)]

\* ConvCouplingLayer.__init__
NewConvCouplingLayer(layer_id) ==
    [kind |-> "ConvCouplingLayer",
     partition_id |-> layer_id,
     radius |-> 0,
     shifts |-> << >>,
     kernels |-> << >>]

NoLayer ==
    [kind |-> "none", partition_id |-> 0, radius |-> 0,
     shifts |-> << >>, kernels |-> << >>]

----------------------------------------------------------------------------
\* forward of the two checkerboard coupling layers

\* mask.unsqueeze(-1) * phi
MaskedField(mask, phi) == [s \in DOMAIN phi |-> IF mask[s] THEN phi[s] ELSE 0]

\* field.roll(shift, (1, 2)): entry s of the result is entry s - shift of
\* the field, indices wrapping around.
RollFirstAxisOnly(field, shift, d) ==
    [s \in Sites(d) |-> field[<<(s[1] - shift[1]) % d[1], s[2]>>]]

Roll(field, shift, d) ==
    [s \in Sites(d) |->
        field[<<(s[1] - shift[1]) % d[1], (s[2] - shift[2]) % d[2]>>]]

\* torch.cat([context.roll(shift, (1, 2)) for shift in shifts], dim=-1)
StackedContext(field, shifts, d) ==
    [s \in Sites(d) |-> [k \in 1..Len(shifts) |-> Roll(field, shifts[k], d)[s]]]

\* x[:, active_mask]: the entries at the active sites
SelectActive(x, active) == [s \in {t \in DOMAIN x : active[t]} |-> x[s]]

\* Where phi_out lives: phi_in.clone() is a tensor of its own.
CloneAliased == "phi_in"

CloneRef == "phi_out"

\* target[:, active_mask] = values
MaskedWrite(target, active, values) ==
    [s \in DOMAIN target |-> IF active[s] THEN values[s] ELSE target[s]]

\* The last lines of both forwards: clone the input, transform the active
\* entries of the input and write them into the clone.  The result names
\* what the caller's tensor holds after the call and what is returned.
TransformActive(phi, context, active) ==
    LET picked == SelectActive(phi, active)
        new == [s \in DOMAIN picked |-> Transform(context[s], picked[s])]
        mem0 == [r \in {"phi_in", "phi_out"} |-> phi]
        mem1 == [mem0 EXCEPT ![CloneRef] = MaskedWrite(@, active, new)]
    IN  [given |-> phi,
         caller |-> mem1["phi_in"],
         out |-> mem1[CloneRef],
         context |-> context]

CouplingLayerForward(ly, d, phi) ==
    LET masks == Checkerboard2d(ly.partition_id, d)
        masked == MaskedField(masks.frozen, phi)
        stacked == StackedContext(masked, ly.shifts, d)
    IN  TransformActive(phi, SelectActive(stacked, masks.active), masks.active)

ConvCouplingLayerForward(ly, d, phi) ==
    LET masks == Checkerboard2d(ly.partition_id, d)
        net_inputs == MaskedField(masks.frozen, phi)
    IN  TransformActive(phi, SelectActive(SpatialNet(net_inputs, d), masks.active),
                        masks.active)

\* A configuration with a different, nonzero value at every site: the
\* layers move values between sites and never look at them, so such a
\* configuration shows every site a value can come from.
Ramp(d, base) == [s \in Sites(d) |-> base + s[1] * d[2] + s[2]]

\* The caller passes two configurations, one call each: a ramp, and the same
\* ramp with a zero at one site.
LayersInit ==
    /\ \E L \in EvenDims, T \in EvenDims : dims = <<L, T>>
    /\ \E base \in 1..MaxVal, t \in Sites(dims) :
          inputs = <<Ramp(dims, base), [Ramp(dims, base) EXCEPT ![t] = 0]>>
    /\ layer = NoLayer
    /\ calls = << >>

BuildCouplingLayer ==
    /\ layer.kind = "none"
    /\ \E radius \in 1..MaxRadius, layer_id \in 0..MaxLayerId :
          layer' = NewCouplingLayer(radius, layer_id)
    /\ UNCHANGED <<dims, inputs, calls, obsVars, restVars>>

BuildConvCouplingLayer ==
    /\ layer.kind = "none"
    /\ \E layer_id \in 0..MaxLayerId : layer' = NewConvCouplingLayer(layer_id)
    /\ UNCHANGED <<dims, inputs, calls, obsVars, restVars>>

CouplingForward ==
    /\ layer.kind = "CouplingLayer"
    /\ Len(calls) < Len(inputs)
    /\ calls' = Append(calls, CouplingLayerForward(layer, dims, inputs[Len(calls) + 1]))
    /\ UNCHANGED <<dims, inputs, layer, obsVars, restVars>>

ConvCouplingForward ==
    /\ layer.kind = "ConvCouplingLayer"
    /\ Len(calls) < Len(inputs)
    /\ calls' = Append(calls, ConvCouplingLayerForward(layer, dims, inputs[Len(calls) + 1]))
    /\ UNCHANGED <<dims, inputs, layer, obsVars, restVars>>

ObsIdle ==
    /\ samples = << >>
    /\ args = << >>
    /\ self = << >>
    /\ value = << >>

LayersNext ==
    \/ BuildCouplingLayer
    \/ BuildConvCouplingLayer
    \/ CouplingForward
    \/ ConvCouplingForward

RestIdle ==
    /\ flow = << >>
    /\ upscaling = << >>
    /\ autocorr = << >>

LayersStart == LayersInit /\ ObsIdle /\ RestIdle

SpecLayers == LayersStart /\ [][LayersNext]_vars

LayersIdle ==
    /\ dims = << >>
    /\ inputs = << >>
    /\ layer = NoLayer
    /\ calls = << >>

----------------------------------------------------------------------------
\* Tensors of the observables module: [shape, data], data in row-major order

RECURSIVE Numel(_)
Numel(shape) == IF shape = << >> THEN 1 ELSE Head(shape) * Numel(Tail(shape))

RECURSIVE Flatten(_)
Flatten(rows) == IF rows = << >> THEN << >> ELSE Head(rows) \o Flatten(Tail(rows))

TensorsOf(shape, vals) ==
    {[shape |-> shape, data |-> d] : d \in [1..Numel(shape) -> vals]}

\* t.unsqueeze_(dim=0), in place
Unsqueeze0(t) == [shape |-> <<1>> \o t.shape, data |-> t.data]

\* t.squeeze_(dim=0), in place: drops the leading axis when its size is 1
Squeeze0(t) ==
    IF t.shape # << >> /\ Head(t.shape) = 1
    THEN [shape |-> Tail(t.shape), data |-> t.data]
    ELSE t

\* for sample in samples: the slices along the leading axis
Unbind(t) ==
    LET m == Numel(Tail(t.shape))
    IN  [n \in 1..Head(t.shape) |->
            [shape |-> Tail(t.shape),
             data |-> SubSeq(t.data, (n - 1) * m + 1, n * m)]]

\* sample[indices], indices a vector of 0-based positions on the leading axis
IndexSelect(t, indices) ==
    [shape |-> <<Len(indices)>> \o Tail(t.shape),
     data |-> Flatten([k \in 1..Len(indices) |-> Unbind(t)[indices[k] + 1].data])]

\* torch.stack(rows) fails on an empty list and on rows of unequal shapes
StackFails(rows) ==
    \/ rows = << >>
    \/ \E n \in DOMAIN rows : rows[n].shape # rows[1].shape

Stack(rows) ==
    [shape |-> <<Len(rows)>> \o rows[1].shape,
     data |-> Flatten([n \in 1..Len(rows) |-> rows[n].data])]

\* The reducers handed to the constructor: the identity, and the sum over
\* the sample axis.
Reducers == {"identity", "sum"}

Func(name, t) ==
    IF name = "identity"
    THEN t
    ELSE [shape |-> Tail(t.shape),
          data |-> [j \in 1..Numel(Tail(t.shape)) |->
                       SumSeq([n \in 1..Head(t.shape) |-> Unbind(t)[n].data[j]])]]

----------------------------------------------------------------------------
\* _Observables.__init__

\* torch.randint(0, n_sample, [n_sample]): the index vectors it can return
ResampleSizeShort(n_sample) == n_sample - 1

ResampleSize(n_sample) == n_sample

RandInt(n_sample) == [1..ResampleSize(n_sample) -> 0..(n_sample - 1)]

\* range(n_bootstrap) when a count is given, no pass at all otherwise
BootstrapPasses(n_bootstrap) ==
    IF n_bootstrap = << >> THEN 0 ELSE n_bootstrap[1]

\* if contains_replicas is True and n_bootstrap is not None
BothGivenInverted(contains_replicas, n_bootstrap) ==
    contains_replicas /\ n_bootstrap = << >>

BothGiven(contains_replicas, n_bootstrap) ==
    contains_replicas /\ n_bootstrap # << >>

\* A construction that raised: no attribute of the object is of use.
\* func_calls counts the applications of the reducer.
Failed(status, func_calls) ==
    [status |-> status, n_replica |-> 0, n_sample |-> 0,
     func_calls |-> func_calls, computed |-> << >>]

Bootstrapping == "ValueError: Bootstrapping only supported for a single sample"

Unpacking == "ValueError: not enough values to unpack"

LiteralSeries == [shape |-> <<5, 1, 1>>, data |-> <<1, 2, 3, 4, 5>>]

LatticeShapes == {<< >>, <<1, 1>>}

ObsInit ==
    /\ \/ /\ \E n \in 0..MaxSample, lat \in LatticeShapes :
                samples \in TensorsOf(<<n>> \o lat, 1..MaxVal)
          /\ \E f \in Reducers, b \in {<< >>} \cup {<<k>> : k \in 0..MaxBootstrap} :
                args = [given |-> samples, contains_replicas |-> FALSE,
                        n_bootstrap |-> b, func |-> f]
       \/ /\ \E r \in 0..MaxReplica, n \in 0..MaxSample, lat \in LatticeShapes :
                samples \in TensorsOf(<<r, n>> \o lat, 1..MaxVal)
          /\ \E f \in Reducers, b \in {<< >>} \cup {<<k>> : k \in 0..MaxBootstrap} :
                args = [given |-> samples, contains_replicas |-> TRUE,
                        n_bootstrap |-> b, func |-> f]
       \/ /\ samples = LiteralSeries
          /\ args = [given |-> samples, contains_replicas |-> FALSE,
                     n_bootstrap |-> << >>, func |-> "identity"]
    /\ self = Failed("new", 0)
    /\ value = << >>

\* The whole constructor.  Every way out sets the caller's tensor to what the
\* in-place calls made so far have left of it.
Construct ==
    /\ self.status = "new"
    /\ IF BothGiven(args.contains_replicas, args.n_bootstrap)
       THEN /\ self' = Failed(Bootstrapping, 0)
            /\ UNCHANGED samples
       ELSE LET s1 == IF args.contains_replicas THEN samples ELSE Unsqueeze0(samples)
            IN  IF Len(s1.shape) < 4
                THEN \* too few axes to unpack n_replica, n_sample, L, T
                     /\ self' = Failed(Unpacking, 0)
                     /\ samples' = s1
                ELSE LET n_replica == s1.shape[1]
                         n_sample == s1.shape[2]
                     IN  IF ~(n_sample > 1)
                         THEN /\ self' = Failed("AssertionError", 0)
                              /\ samples' = s1
                         ELSE LET replicas == Unbind(s1)
                                  first == [n \in 1..n_replica |->
                                               Func(args.func, replicas[n])]
                                  passes == BootstrapPasses(args.n_bootstrap)
                              IN  /\ samples' = IF args.n_bootstrap # << >>
                                                THEN Squeeze0(s1) ELSE s1
                                  /\ \E draws \in [1..passes -> RandInt(n_sample)] :
                                        LET sample == replicas[n_replica]
                                            more == [k \in 1..passes |->
                                                Func(args.func, IndexSelect(sample, draws[k]))]
                                            computed == first \o more
                                        IN  self' = IF StackFails(computed)
                                                    THEN Failed("RuntimeError", Len(computed))
                                                    ELSE [status |-> "ok",
                                                          n_replica |-> n_replica,
                                                          n_sample |-> n_sample,
                                                          func_calls |-> Len(computed),
                                                          computed |-> <<Stack(computed)>>]
    /\ UNCHANGED <<args, value, layerVars, restVars>>

----------------------------------------------------------------------------
\* OnePointObservables.value

\* torch.std_mean(t, dim=0, correction): the pair (std, mean) over the
\* leading axis, entry by entry.  A mean is the fraction <<sum, n>>; a
\* standard deviation is given by its square, the fraction
\* <<n * sum of squares - sum^2, n * (n - correction)>>, and is not a number
\* when the denominator is 0.
StdMean(t, correction) ==
    LET rows == Unbind(t)
        n == Len(rows)
        col(j) == [k \in 1..n |-> rows[k].data[j]]
        width == Numel(Tail(t.shape))
    IN  <<[j \in 1..width |->
              <<n * SumSeq([k \in 1..n |-> col(j)[k] * col(j)[k]])
                  - SumSeq(col(j)) * SumSeq(col(j)),
                n * (n - correction)>>],
          [j \in 1..width |-> <<SumSeq(col(j)), n>>]>>

\* reversed(pair)
KeepOrder(pair) == pair

Reversed(pair) == [n \in 1..Len(pair) |-> pair[Len(pair) + 1 - n]]

ReadValue ==
    /\ self.status = "ok"
    /\ value = << >>
    /\ value' = Reversed(StdMean(self.computed[1], 1))
    /\ UNCHANGED <<samples, args, self, layerVars, restVars>>

ObsNext ==
    \/ Construct
    \/ ReadValue

ObsStart == ObsInit /\ LayersIdle /\ RestIdle

SpecObservables == ObsStart /\ [][ObsNext]_vars

----------------------------------------------------------------------------
\* Flow.build

\* range(2 * self.n_blocks)
NumLayersHalved(n_blocks) == n_blocks

NumLayers(n_blocks) == 2 * n_blocks

\* AffineTransformModule.build: the k-th call returns a module of its own,
\* a new UnivariateTransformModule around a newly built net.
TransformBuild(k) == <<"UnivariateTransformModule", k>>

\* ConvNet2d.build: the k-th call returns a network of its own.
SpatialNetBuild(k) == <<"ConvNet2d", k>>

\* CouplingLayer(transform, spatial_net, layer_id) of
\* torchlft.scalar.coupling_layers: a checkerboard coupling layer whose
\* partition id is its layer id.
FlowCouplingLayer(transform, spatial_net, layer_id) ==
    [transform |-> transform, spatial_net |-> spatial_net, layer_id |-> layer_id]

FlowInit ==
    /\ \E n \in 0..MaxBlocks, L \in EvenDims, T \in EvenDims :
          flow = [n_blocks |-> n, lattice |-> <<L, T>>, layers |-> << >>,
                  transform_builds |-> 0, spatial_net_builds |-> 0,
                  composition |-> << >>]
    /\ upscaling = << >>
    /\ autocorr = << >>

\* One pass of the loop over layer_id.
BuildLayer ==
    /\ flow.composition = << >>
    /\ Len(flow.layers) < NumLayers(flow.n_blocks)
    /\ LET layer_id == Len(flow.layers)
           transform == TransformBuild(flow.transform_builds + 1)
           spatial_net == SpatialNetBuild(flow.spatial_net_builds + 1)
       IN  flow' = [flow EXCEPT
                      !.transform_builds = @ + 1,
                      !.spatial_net_builds = @ + 1,
                      !.layers = Append(@, FlowCouplingLayer(transform, spatial_net, layer_id))]
    /\ UNCHANGED <<layerVars, obsVars, upscaling, autocorr>>

\* return Composition(*layers)
ReturnComposition ==
    /\ flow.composition = << >>
    /\ ~(Len(flow.layers) < NumLayers(flow.n_blocks))
    /\ flow' = [flow EXCEPT !.composition = <<flow.layers>>]
    /\ UNCHANGED <<layerVars, obsVars, upscaling, autocorr>>

FlowNext ==
    \/ BuildLayer
    \/ ReturnComposition

FlowStart == FlowInit /\ LayersIdle /\ ObsIdle

SpecFlow == FlowStart /\ [][FlowNext]_vars

----------------------------------------------------------------------------
\* UpscalingLayer.forward

UpscalingInit ==
    /\ \E L \in 1..(2 * MaxHalfL), T \in 1..(2 * MaxHalfL), n \in 1..MaxChannels :
          upscaling = [shape |-> <<1, L, T, n>>, out |-> "pending"]
    /\ flow = << >>
    /\ autocorr = << >>

\* The assertion on the channel count, then the end of the body: a Python
\* function that runs off its end returns None.
UpscalingForward ==
    /\ upscaling.out = "pending"
    /\ LET n == upscaling.shape[4]
       IN  upscaling' = [upscaling EXCEPT
                           !.out = IF n % 4 = 0 THEN "None" ELSE "AssertionError"]
    /\ UNCHANGED <<layerVars, obsVars, flow, autocorr>>

UpscalingStart == UpscalingInit /\ LayersIdle /\ ObsIdle

SpecUpscaling == UpscalingStart /\ [][UpscalingForward]_vars

----------------------------------------------------------------------------
\* autocorrelation

\* The names bound where the body runs: the parameter, the locals assigned
\* before the rearrangement of the axes, and the module's globals.
NamesInScope ==
    {"observable", "sample_size", "observable_shape",
     "annotations", "TYPE_CHECKING", "pi", "prod", "sin", "torch", "F", "Field",
     "spherical_triangle_area", "autocorrelation", "_Observables",
     "OnePointObservables", "TwoPointObservables"}

\* The name the rearrangement of the axes reads.
MovedimOperand == "observabe"

\* F.conv1d(F.pad(o, (0, sample_size - 1)), o).squeeze(): entry k is the sum
\* over t of padded[t + k] * o[t]
Autocovariance(o) ==
    LET N == Len(o)
        padded == o \o [n \in 1..(N - 1) |-> 0]
    IN  [k \in 1..N |-> SumSeq([t \in 1..N |-> padded[t + k - 1] * o[t]])]

\* autocovariance / autocovariance[..., 0:1], every quotient a fraction
Normalised(autocovariance) ==
    [k \in 1..Len(autocovariance) |-> <<autocovariance[k], autocovariance[1]>>]

AutocorrInit ==
    /\ \/ \E N \in 0..MaxLen : \E d \in [1..N -> 0..MaxVal] :
             autocorr = [observable |-> [shape |-> <<N>>, data |-> d],
                         status |-> "pending", result |-> << >>]
       \/ \E x \in 0..MaxVal :
             autocorr = [observable |-> [shape |-> << >>, data |-> <<x>>],
                         status |-> "pending", result |-> << >>]
    /\ flow = << >>
    /\ upscaling = << >>

Autocorrelation ==
    /\ autocorr.status = "pending"
    /\ autocorr' =
          IF ~(Len(autocorr.observable.shape) > 0)
          THEN [autocorr EXCEPT !.status = "AssertionError"]
          ELSE IF MovedimOperand \notin NamesInScope
          THEN [autocorr EXCEPT !.status = "NameError"]
          ELSE [autocorr EXCEPT
                   !.status = "ok",
                   !.result = Normalised(Autocovariance(autocorr.observable.data))]
    /\ UNCHANGED <<layerVars, obsVars, flow, upscaling>>

AutocorrStart == AutocorrInit /\ LayersIdle /\ ObsIdle

SpecAutocorrelation == AutocorrStart /\ [][Autocorrelation]_vars

----------------------------------------------------------------------------
\* Properties of the coupling layers

Masks == Checkerboard2d(layer.partition_id, dims)

ActiveSites == {s \in Sites(dims) : Masks.active[s]}

FrozenSites == {s \in Sites(dims) : Masks.frozen[s]}

\* The site whose value a roll by shift brings to site s.
Neighbour(s, shift) ==
    <<(s[1] - shift[1]) % dims[1], (s[2] - shift[2]) % dims[2]>>

\* C1: forward of CouplingLayer and of ConvCouplingLayer returns a
\* configuration over the same sites as the input, equal to the input at
\* every frozen site, and the caller's configuration is the same after the
\* call as before it.
C1_FrozenSitesAndInputKept ==
    \A n \in 1..Len(calls) :
        /\ DOMAIN calls[n].out = DOMAIN calls[n].given
        /\ \A s \in FrozenSites : calls[n].out[s] = calls[n].given[s]
        /\ calls[n].caller = calls[n].given

C1_Witness ==
    /\ layer.kind = "ConvCouplingLayer"
    /\ Len(calls) = 2
    /\ \A s \in ActiveSites : calls[2].out[s] # calls[2].given[s]

\* C2: in CouplingLayer.forward every context entry selected at an active
\* site is the input value of a frozen site (never a masked zero), so two
\* inputs that agree on the frozen sites get the same context at every
\* active site, and the same output at every active site where they agree.
C2_ContextFromFrozenOnly ==
    layer.kind = "CouplingLayer" =>
        /\ \A n \in 1..Len(calls) : \A s \in ActiveSites :
              /\ Len(calls[n].context[s]) = Len(layer.shifts)
              /\ \A k \in 1..Len(layer.shifts) :
                    /\ Neighbour(s, layer.shifts[k]) \in FrozenSites
                    /\ calls[n].context[s][k] =
                           calls[n].given[Neighbour(s, layer.shifts[k])]
        /\ (/\ Len(calls) = 2
            /\ \A s \in FrozenSites : calls[1].given[s] = calls[2].given[s])
           => \A s \in ActiveSites :
                 /\ calls[1].context[s] = calls[2].context[s]
                 /\ calls[1].given[s] = calls[2].given[s]
                       => calls[1].out[s] = calls[2].out[s]

C2_Witness ==
    /\ layer.kind = "CouplingLayer"
    /\ layer.radius = 2
    /\ dims = <<4, 2>>
    /\ Len(calls) = 2
    /\ \A s \in FrozenSites : calls[1].given[s] = calls[2].given[s]
    /\ \E s \in ActiveSites : calls[1].given[s] # calls[2].given[s]

\* C3: the offsets CouplingLayer derives at construction are the offsets of
\* the K x K window with dx + dy odd, without the centre, K * K div 2 of
\* them, as many as there are one-hot kernel channels; for radius 1 they are
\* the four orthogonal unit offsets.
C3_NeighbourOffsets ==
    layer.kind = "CouplingLayer" =>
        LET r == layer.radius
            K == 2 * r + 1
            offsets == Range(layer.shifts)
        IN  /\ <<0, 0>> \notin offsets
            /\ offsets = {o \in ((0 - r)..r) \X ((0 - r)..r) : (o[1] + o[2]) % 2 = 1}
            /\ Cardinality(offsets) = Len(layer.shifts)
            /\ Len(layer.shifts) = (K * K) \div 2
            /\ \A p \in Window(K) : Len(layer.kernels[p]) = (K * K) \div 2
            /\ r = 1 =>
                  /\ Len(layer.shifts) = 4
                  /\ offsets = {<<1, 0>>, <<0 - 1, 0>>, <<0, 1>>, <<0, 0 - 1>>}

C3_Witness ==
    /\ layer.kind = "CouplingLayer"
    /\ layer.radius = 1
    /\ Len(layer.shifts) = 4

----------------------------------------------------------------------------
\* Properties of the observable sample sets

\* The per-replica sample count of the tensor the caller passed.
GivenSampleCount ==
    IF args.contains_replicas THEN args.given.shape[2] ELSE args.given.shape[1]

GivenBootstrapCount ==
    IF args.n_bootstrap = << >> THEN 0 ELSE args.n_bootstrap[1]

\* The replicas of the tensor the caller passed.
GivenReplicas ==
    IF args.contains_replicas THEN Unbind(args.given) ELSE <<args.given>>

\* C4: a construction with contains_replicas true and a bootstrap count fails
\* with the configuration error, with no reducer call and the samples as they
\* were passed; a construction with n_sample not above 1 fails and computes
\* no statistic.
C4_RejectedConstructions ==
    self.status # "new" =>
        /\ (args.contains_replicas /\ args.n_bootstrap # << >>)
              => /\ self.status = Bootstrapping
                 /\ self.func_calls = 0
                 /\ self.computed = << >>
                 /\ samples = args.given
        /\ GivenSampleCount <= 1
              => /\ self.status \notin {"new", "ok"}
                 /\ self.computed = << >>

C4_Witness ==
    /\ self.status = Bootstrapping
    /\ args.n_bootstrap = <<1>>
    /\ args.given.shape = <<2, 2, 1, 1>>

\* C5: after a successful construction the computed statistic has
\* n_replica + n_bootstrap rows; row i of the first n_replica is the reducer
\* of replica i, and each later row is the reducer of n_sample samples of the
\* single replica picked at indices in 0..n_sample-1.
C5_ComputedRows ==
    self.status = "ok" =>
        LET rows == Unbind(self.computed[1])
        IN  /\ self.n_replica = Len(GivenReplicas)
            /\ Len(rows) = self.n_replica + GivenBootstrapCount
            /\ \A n \in 1..self.n_replica :
                  rows[n] = Func(args.func, GivenReplicas[n])
            /\ \A k \in 1..GivenBootstrapCount :
                  \E idx \in [1..GivenSampleCount -> 0..(GivenSampleCount - 1)] :
                      rows[self.n_replica + k] =
                          Func(args.func, IndexSelect(GivenReplicas[1], idx))

C5_Witness ==
    /\ self.status = "ok"
    /\ args.n_bootstrap = <<1>>
    /\ args.func = "identity"
    /\ Unbind(self.computed[1])[2] # Unbind(self.computed[1])[1]

\* The value pair is the mean and the Bessel-corrected standard deviation of
\* the rows of the computed statistic, entry by entry, in that order.
MeanThenStdOverRows ==
    LET rows == Unbind(self.computed[1])
        n == Len(rows)
    IN  /\ Len(value) = 2
        /\ \A j \in 1..Len(rows[1].data) :
              LET sum == SumSeq([k \in 1..n |-> rows[k].data[j]])
                  squares == SumSeq([k \in 1..n |-> rows[k].data[j] * rows[k].data[j]])
              IN  /\ value[1][j] = <<sum, n>>
                  /\ value[2][j] = <<n * squares - sum * sum, n * (n - 1)>>

\* C6 as stated: value is (mean, Bessel-corrected standard deviation), and
\* for the literal series it is mean 3.0 and standard deviation sqrt(10 / 4).
C6_Original ==
    value # << >> =>
        /\ MeanThenStdOverRows
        /\ args.given = LiteralSeries
              => \A j \in DOMAIN value[1] :
                    /\ value[1][j][1] = 3 * value[1][j][2]
                    /\ value[2][j][2] > 0
                    /\ 4 * value[2][j][1] = 10 * value[2][j][2]

\* C6, amended: value is (mean, Bessel-corrected standard deviation) over the
\* rows of the computed statistic; the literal series, a single replica
\* without bootstrap, is one row, so the mean is the series itself and every
\* standard deviation is 0 / 0, not a number.
C6_MeanThenStdOverRows ==
    value # << >> =>
        /\ MeanThenStdOverRows
        /\ args.given = LiteralSeries
              => /\ value[1] = [j \in 1..5 |-> <<LiteralSeries.data[j], 1>>]
                 /\ value[2] = [j \in 1..5 |-> <<0, 0>>]

C6_Witness ==
    /\ value # << >>
    /\ args.given = LiteralSeries

\* C10 as stated: after a construction that succeeded (with or without
\* bootstrap), that was given replicas, or that failed on n_sample > 1, the
\* caller's samples tensor has the rank and shape it had before the call.
C10_SamplesShapeKept ==
    (\/ self.status = "ok"
     \/ self.status = "AssertionError"
     \/ self.status # "new" /\ args.contains_replicas)
        => samples.shape = args.given.shape

----------------------------------------------------------------------------
\* Properties of Flow.build, UpscalingLayer and autocorrelation

\* Whether layer n of the composition transforms site s.
ActiveIn(n, s) ==
    Checkerboard2d(flow.composition[1][n].layer_id, flow.lattice).active[s]

C8_UpscalingSignals ==
    upscaling.out # "pending" =>
        /\ upscaling.shape[4] % 4 # 0 => upscaling.out = "AssertionError"
        /\ upscaling.shape[4] % 4 = 0 => upscaling.out = "NotImplementedError"
        /\ upscaling.out # "None"

\* C9 as stated: on a series of length N > 0 with a nonzero lag-0
\* autocovariance, autocorrelation completes and returns N values, the value
\* at lag k being the sum over t of series[t] * series[t + k] divided by the
\* value of that sum at lag 0, so that the value at lag 0 is 1.
C9_AutocorrelationCompletes ==
    LET x == autocorr.observable.data
        N == Len(x)
        acov(k) == SumSeq([t \in 1..(N - k) |-> x[t] * x[t + k]])
    IN  (/\ autocorr.status # "pending"
         /\ Len(autocorr.observable.shape) = 1
         /\ N > 0
         /\ acov(0) # 0)
        => /\ autocorr.status = "ok"
           /\ Len(autocorr.result) = N
           /\ \A k \in 0..(N - 1) : autocorr.result[k + 1] = <<acov(k), acov(0)>>
           /\ autocorr.result[1][1] = autocorr.result[1][2]

====
